---- MODULE Spec2Model ----
(***************************************************************************)
(* YOLO_trainer: a desktop GUI around a detection library.  The module     *)
(* models the Train page and its worker thread (pages/train.py), the       *)
(* stdout redirection and epoch scraping of the worker, the history        *)
(* directory and the pages that read it (pages/history.py, predict.py,     *)
(* model_comparison.py, dashboard.py), the dataset bookkeeping of          *)
(* pages/dataset.py and the settings propagation of main.py.               *)
(*                                                                         *)
(* Text is a sequence of one-character strings.  Timestamps are the        *)
(* minutes of a clock: the code formats them "%y%m%d_%H%M", a fixed-width  *)
(* digit string whose string order is the order of the minutes.            *)
(***************************************************************************)
EXTENDS Integers, Sequences, FiniteSets, TLC

VARIABLES
    \* ---- stdout redirection of one TrainWorker.run (train.py:215-237)
    buffer,                 \* Redirect.buffer
    events,                 \* calls received by the log callback / progress signal, in order
    written,                \* observation: every text passed to write, concatenated
    flushed,                \* observation: flush has forwarded an unterminated tail
    nwrites,                \* observation: number of write/flush calls so far
    current_epoch,          \* TrainWorker.current_epoch
    total_epochs,           \* TrainWorker.total_epochs
    first_epoch_seen,       \* TrainWorker._first_epoch_seen_time is not None
    epoch1_end_seen,        \* TrainWorker._epoch1_end_time is not None
    \* ---- dataset directory scan (dataset.py:163-174)
    yaml_files,             \* the data.yaml files under dataset_dir: set of [path, mtime]
    yaml_result,            \* last call of find_yaml_in_dataset_dir: what it saw and returned
    \* ---- environment
    clock,                  \* the minute datetime.now() falls in
    dirs,                   \* the configured directories that exist
    models_fs,              \* <<models_dir, ts>>: the file models_dir/best_<ts>.pt exists
    run_dirs,               \* <<runs_dir, ts>>: the directory runs_dir/train_<ts> exists
    run_best,               \* <<runs_dir, ts>>: runs_dir/train_<ts>/weights/best.pt exists
    hist_fs,                \* history_dir -> name -> what history_dir/<name> is
    \* ---- MainWindow and the pages' settings
    settings,               \* MainWindow.settings
    page_paths,             \* page -> the page's self.paths
    dataset_page,           \* DatasetPage.dataset_dir / temp_dir
    overlay,                \* the shared LoadingOverlay is visible
    \* ---- TrainPage
    data_yaml,              \* TrainPage.data_yaml (None when not selected)
    dataset_name,           \* TrainPage.dataset_name
    dataset_combo,          \* index of the Dataset Category combo
    epoch_input,            \* text of the Epochs line edit
    patience_input,         \* text of the Patience line edit
    btn_start,              \* the start button is enabled
    progress_bar,           \* value of the progress bar
    progress_label,         \* what the progress label shows
    log_box,                \* lines of the Train page log
    worker,                 \* TrainPage.worker: the TrainWorker thread
    queue,                  \* signals of the worker queued for the GUI thread
    nstarts,                \* observation: calls of start_training so far
    run_start_fs,           \* observation: models and history as they were when the worker started
    \* ---- the pages that read the history
    all_entries,            \* HistoryPage.all_entries
    filtered_entries,       \* HistoryPage.filtered_entries
    current_page,           \* HistoryPage.current_page
    model_combo,            \* PredictPage.model_combo items
    latest_train_timestamp, \* PredictPage.latest_train_timestamp
    mc_cards,               \* ModelComparisonPage: the cards of the tabs
    dash_entries,           \* DashboardPage.entries
    last,                   \* observation: the handler that ran last
    \* ---- PredictPage and the delete button of HistoryPage
    selected_path,          \* PredictPage.selected_path (None when no file is chosen)
    pred_log,               \* lines of the Predict page log
    pred_worker,            \* PredictPage.worker: the PredictWorker thread
    pred_dirs,              \* <<history_dir, name>>: history_dir/<name>/predict_log/predict_<now> exists
    pred_call,              \* observation: the last call of run_predict
    del_call,               \* observation: the last call of delete_selected
    nclicks                 \* observation: calls of run_predict and delete_selected so far

logVars  == <<buffer, events, written, flushed, nwrites, current_epoch,
              total_epochs, first_epoch_seen, epoch1_end_seen>>
yamlVars == <<yaml_files, yaml_result>>
fsVars   == <<dirs, models_fs, run_dirs, run_best, hist_fs>>
setVars  == <<settings, page_paths, dataset_page>>
formVars == <<data_yaml, dataset_name, dataset_combo, epoch_input, patience_input>>
trainVars == <<btn_start, progress_bar, progress_label, log_box, worker, queue,
               nstarts, run_start_fs, overlay>>
viewVars == <<all_entries, filtered_entries, current_page, model_combo,
              latest_train_timestamp, mc_cards, dash_entries>>
browseVars == <<selected_path, pred_log, pred_worker, pred_dirs, pred_call, del_call,
                nclicks>>
appVars  == <<clock, fsVars, setVars, formVars, trainVars, viewVars, last, browseVars>>
vars     == <<logVars, yamlVars, appVars>>

(***************************************************************************)
(* Bounds                                                                  *)
(***************************************************************************)
MaxWrites == 3      \* write/flush calls on the redirected stream
MaxYaml   == 3      \* data.yaml files under dataset_dir
MaxClock  == 2      \* minutes the clock can show
MaxStarts == 1      \* calls of start_training
MaxClicks == 2      \* calls of run_predict and delete_selected
MaxTrainStarts == 2 \* calls of start_training when the Train page is followed alone

(***************************************************************************)
(* Text helpers                                                            *)
(***************************************************************************)
NL == "\n"
CR == "\r"
SP == " "

\* characters str.strip() removes and the regex class \s matches
Whitespace == {SP, CR, NL}
Digits     == {"0", "1", "2", "3"}

DigitVal(c) == CASE c = "0" -> 0 [] c = "1" -> 1 [] c = "2" -> 2 [] c = "3" -> 3

\* int() of a non-empty digit string
RECURSIVE ToInt(_)
ToInt(s) == IF s = <<>> THEN 0
            ELSE 10 * ToInt(SubSeq(s, 1, Len(s) - 1)) + DigitVal(s[Len(s)])

\* str.lstrip / rstrip / strip
RECURSIVE LStrip(_)
LStrip(s) == IF s # <<>> /\ Head(s) \in Whitespace THEN LStrip(Tail(s)) ELSE s

RECURSIVE RStrip(_)
RStrip(s) == IF s # <<>> /\ s[Len(s)] \in Whitespace
             THEN RStrip(SubSeq(s, 1, Len(s) - 1)) ELSE s

Strip(s) == RStrip(LStrip(s))

\* line.rstrip("\r")
RECURSIVE RStripCR(_)
RStripCR(s) == IF s # <<>> /\ s[Len(s)] = CR
               THEN RStripCR(SubSeq(s, 1, Len(s) - 1)) ELSE s

\* index of the first "\n" of s, 0 if none ("\n" in self.buffer)
RECURSIVE IndexNL(_, _)
IndexNL(s, i) == IF i > Len(s) THEN 0
                 ELSE IF s[i] = NL THEN i ELSE IndexNL(s, i + 1)

\* length of the longest run of characters of set cs starting at s[i]
RECURSIVE RunLen(_, _, _)
RunLen(s, i, cs) == IF i <= Len(s) /\ s[i] \in cs THEN 1 + RunLen(s, i + 1, cs) ELSE 0

(***************************************************************************)
(* Settings, directories and the history on disk                           *)
(***************************************************************************)
None == 0

\* settings.py:11-18, DEFAULT_SETTINGS, the keys the pages read
DEFAULT_SETTINGS == [dataset_dir |-> "d1", temp_dir |-> "t1", runs_dir |-> "r1",
                     models_dir |-> "m1", history_dir |-> "h1"]

\* what the user can type into the Settings page before saving
SettingsChoices == {DEFAULT_SETTINGS,
                    [dataset_dir |-> "d2", temp_dir |-> "t2", runs_dir |-> "r2",
                     models_dir |-> "m2", history_dir |-> "h2"]}

HistoryDirs == {st.history_dir : st \in SettingsChoices}

\* the pages that keep the settings dictionary as self.paths
Pages == {"dashboard", "history", "model_comparison", "train", "predict"}

Timestamps == 1 .. MaxClock
\* names in a history directory that no training run wrote
StrayFile    == 0 - 1       \* a plain file
StrayDir     == 0 - 2       \* a directory without metadata.json
StrayCorrupt == 0 - 3       \* a directory whose metadata.json does not parse
StrayNames   == {StrayFile, StrayDir, StrayCorrupt}
Names        == StrayNames \cup Timestamps

NoMap50 == 0 - 1            \* map50 is None
NoMeta == [timestamp |-> 0, data_yaml |-> 0, dataset |-> "", base_model |-> "",
           epochs |-> 0, patience |-> 0, models_file |-> <<"", 0>>,
           run_dir |-> <<"", 0>>, map50 |-> NoMap50]

Absent == [kind |-> "absent", files |-> {}, meta_ok |-> FALSE, m |-> NoMeta]

StrayNode(n) ==
    CASE n = StrayFile    -> [Absent EXCEPT !.kind = "file"]
      [] n = StrayDir     -> [Absent EXCEPT !.kind = "dir"]
      [] n = StrayCorrupt -> [Absent EXCEPT !.kind = "dir", !.files = {"metadata.json"}]

\* os.listdir: the existing names, here in ascending order; every reader
\* below sorts what it lists
RECURSIVE AscendingSeq(_)
AscendingSeq(S) ==
    IF S = {} THEN <<>>
    ELSE LET x == CHOOSE y \in S : \A z \in S : y <= z
         IN  <<x>> \o AscendingSeq(S \ {x})

ListDir(fs, h) == AscendingSeq({n \in Names : fs[h][n].kind # "absent"})

\* os.path.isfile(meta_path) and json.load succeeding
HasMeta(node)      == node.kind = "dir" /\ "metadata.json" \in node.files
ReadableMeta(node) == HasMeta(node) /\ node.meta_ok

\* mutant of InsertByTimestamp: sort without reverse=True
RECURSIVE InsertByTimestamp_Ascending(_, _)
InsertByTimestamp_Ascending(e, s) ==
    IF s = <<>> THEN <<e>>
    ELSE IF Head(s).timestamp > e.timestamp THEN <<e>> \o s
    ELSE <<Head(s)>> \o InsertByTimestamp_Ascending(e, Tail(s))

\* list.sort(key=lambda x: x["timestamp"], reverse=True): stable, descending
RECURSIVE InsertByTimestamp(_, _)
InsertByTimestamp(e, s) ==
    IF s = <<>> THEN <<e>>
    ELSE IF Head(s).timestamp < e.timestamp THEN <<e>> \o s
    ELSE <<Head(s)>> \o InsertByTimestamp(e, Tail(s))

RECURSIVE SortByTimestampDesc(_)
SortByTimestampDesc(s) ==
    IF s = <<>> THEN <<>>
    ELSE InsertByTimestamp(s[Len(s)], SortByTimestampDesc(SubSeq(s, 1, Len(s) - 1)))

(***************************************************************************)
(* HistoryPage.reload_history (history.py:187-241)                         *)
(***************************************************************************)
HistoryEntry(h, n, node) ==
    [timestamp |-> node.m.timestamp, dataset |-> node.m.dataset,
     base_model |-> node.m.base_model, epochs |-> node.m.epochs,
     patience |-> node.m.patience, map50 |-> node.m.map50,
     history_dir |-> <<h, n>>, models_file |-> node.m.models_file,
     run_dir |-> node.m.run_dir]

\* mutant of ScanHistory: the isfile(meta_path) / json.load checks left out
RECURSIVE ScanHistory_NoMetaCheck(_, _, _)
ScanHistory_NoMetaCheck(fs, h, names) ==
    IF names = <<>> THEN <<>>
    ELSE LET node == fs[h][Head(names)]
             rest == ScanHistory_NoMetaCheck(fs, h, Tail(names))
         IN  IF node.kind # "dir" THEN rest
             ELSE <<HistoryEntry(h, Head(names), node)>> \o rest

\* the for loop over os.listdir(history_dir)
RECURSIVE ScanHistory(_, _, _)
ScanHistory(fs, h, names) ==
    IF names = <<>> THEN <<>>
    ELSE LET node == fs[h][Head(names)]
             rest == ScanHistory(fs, h, Tail(names))
         IN  IF node.kind # "dir" THEN rest
             ELSE IF ~HasMeta(node) THEN rest
             ELSE IF ~node.meta_ok THEN rest
             ELSE <<HistoryEntry(h, Head(names), node)>> \o rest

\* the value of all_entries after reload_history
reload_history(fs, ds, paths) ==
    IF paths.history_dir \notin ds THEN <<>>
    ELSE SortByTimestampDesc(ScanHistory(fs, paths.history_dir, ListDir(fs, paths.history_dir)))

\* apply_filter with the filter combo on its first item and an empty search
\* box, the values the widgets are created with: every entry passes
apply_filter(entries) == entries

(***************************************************************************)
(* DashboardPage.reload_data (dashboard.py:222-265)                        *)
(***************************************************************************)
DashEntry(node) ==
    [timestamp |-> node.m.timestamp, dataset |-> node.m.dataset,
     map50 |-> node.m.map50, models_file |-> node.m.models_file,
     run_dir |-> node.m.run_dir]

RECURSIVE ScanDashboard(_, _, _)
ScanDashboard(fs, h, names) ==
    IF names = <<>> THEN <<>>
    ELSE LET node == fs[h][Head(names)]
             rest == ScanDashboard(fs, h, Tail(names))
         IN  IF ReadableMeta(node) THEN <<DashEntry(node)>> \o rest ELSE rest

reload_data(fs, ds, paths) ==
    IF paths.history_dir \notin ds THEN <<>>
    ELSE SortByTimestampDesc(ScanDashboard(fs, paths.history_dir, ListDir(fs, paths.history_dir)))

(***************************************************************************)
(* PredictPage.refresh_model_list (predict.py:165-247)                     *)
(***************************************************************************)
Grouped == {"fire", "human", "etc", "unknown"}
GroupOrder == <<"fire", "human", "etc", "unknown">>     \* dataset_labels
GroupOf(dataset) == IF dataset \in Grouped THEN dataset ELSE "etc"

ComboHeader(g) == [header |-> TRUE, group |-> g, timestamp |-> 0, model_file |-> 0]
ComboModel(e)  == [header |-> FALSE, group |-> GroupOf(e.dataset),
                   timestamp |-> e.timestamp, model_file |-> e.models_file[2]]

\* the for loop over os.listdir(history_dir): metadata_map and timestamps
RECURSIVE ScanModels(_, _, _)
ScanModels(fs, h, names) ==
    IF names = <<>> THEN <<>>
    ELSE LET node == fs[h][Head(names)]
             rest == ScanModels(fs, h, Tail(names))
         IN  IF ReadableMeta(node)
             THEN <<[timestamp |-> node.m.timestamp, dataset |-> node.m.dataset,
                     models_file |-> node.m.models_file]>> \o rest
             ELSE rest

RECURSIVE SelectGroup(_, _)
SelectGroup(s, g) ==
    IF s = <<>> THEN <<>>
    ELSE IF GroupOf(Head(s).dataset) = g THEN <<Head(s)>> \o SelectGroup(Tail(s), g)
    ELSE SelectGroup(Tail(s), g)

RECURSIVE ComboItems(_, _)
ComboItems(metas, i) ==
    IF i > Len(GroupOrder) THEN <<>>
    ELSE LET models == SortByTimestampDesc(SelectGroup(metas, GroupOrder[i]))
         IN  (IF models = <<>> THEN <<>>
              ELSE <<ComboHeader(GroupOrder[i])>>
                   \o [k \in 1 .. Len(models) |-> ComboModel(models[k])])
             \o ComboItems(metas, i + 1)

\* the combo items and latest_train_timestamp after refresh_model_list;
\* when a directory is missing the method returns after clear() and keeps
\* the old latest_train_timestamp
refresh_model_list(fs, ds, paths, old_latest) ==
    IF paths.models_dir \notin ds \/ paths.history_dir \notin ds
    THEN [combo |-> <<>>, latest |-> old_latest]
    ELSE LET metas  == ScanModels(fs, paths.history_dir, ListDir(fs, paths.history_dir))
             sorted == SortByTimestampDesc(metas)
         IN  [combo  |-> ComboItems(metas, 1),
              latest |-> IF sorted = <<>> THEN None ELSE sorted[1].timestamp]

(***************************************************************************)
(* ModelComparisonPage.reload_models (model_comparison.py:244-313)         *)
(***************************************************************************)
RECURSIVE Reverse(_)
Reverse(s) == IF s = <<>> THEN <<>> ELSE Append(Reverse(Tail(s)), Head(s))

\* ModelCard(meta, run_dir) on the tab of its dataset
Card(node) == [tab |-> GroupOf(node.m.dataset), timestamp |-> node.m.timestamp,
               run_dir |-> node.m.run_dir]

RECURSIVE ScanCards(_, _, _)
ScanCards(fs, h, names) ==
    IF names = <<>> THEN <<>>
    ELSE LET node == fs[h][Head(names)]
             rest == ScanCards(fs, h, Tail(names))
         IN  IF ReadableMeta(node) THEN <<Card(node)>> \o rest ELSE rest

\* the cards after reload_models; the method returns before clearing the
\* tabs when history_dir is not a directory
reload_models(fs, ds, paths, old_cards) ==
    IF paths.history_dir \notin ds THEN old_cards
    ELSE ScanCards(fs, paths.history_dir, Reverse(ListDir(fs, paths.history_dir)))

(***************************************************************************)
(* TrainPage (train.py:365-579)                                            *)
(***************************************************************************)
\* the items of dataset_combo; the first is the placeholder
\* (train.py:398, the text shown is the Korean for "choose a category")
CategoryPlaceholder == "category_placeholder"
DatasetComboItems == <<CategoryPlaceholder, "fire", "human", "etc", "unknown">>
ComboText(i) == DatasetComboItems[i + 1]
ComboIndex(text) == CHOOSE i \in 0 .. 4 : ComboText(i) = text

\* the data.yaml files the user can pick, with what
\* detect_dataset_from_yaml finds in each
YamlChoices == {1}
detect_dataset_from_yaml(y) == IF y = 1 THEN "fire" ELSE "unknown"

\* the category indexes the user picks by hand
ComboChoices == {0, 3}

\* texts typed into the Epochs and Patience line edits
EpochTexts    == { <<SP, "2", SP>>, <<"2", ".", "5">> }
PatienceTexts == { <<>> }

\* int(text) raises ValueError unless the text is an optional sign and
\* digits, surrounded by optional whitespace
IsIntText(s) ==
    LET t == Strip(s)
        u == IF t # <<>> /\ t[1] \in {"-", "+"} THEN Tail(t) ELSE t
    IN  u # <<>> /\ \A i \in DOMAIN u : u[i] \in Digits

IntOf(s) ==
    LET t == Strip(s)
    IN  IF t[1] = "-" THEN 0 - ToInt(Tail(t))
        ELSE IF t[1] = "+" THEN ToInt(Tail(t))
        ELSE ToInt(t)

NoProgress == [elapsed |-> 0, expected |-> 0, cur |-> 0, tot |-> 0]
NoPath     == <<"", 0>>

\* the label text of train.py:448 and 546
InitialLabel == [progress |-> 0, elapsed |-> 0, expected |-> 0, cur |-> 0, tot |-> 0]

Min(a, b) == IF a <= b THEN a ELSE b

\* the percentage of on_progress_update (train.py:501-509)
ProgressPercent(p) ==
    IF p.expected > 0 THEN Min(100, (p.elapsed * 100) \div p.expected)
    ELSE IF p.tot > 0 THEN Min(100, (p.cur * 100) \div p.tot)
    ELSE 0

LogSignal(tag)       == [kind |-> "log", tag |-> tag, p |-> NoProgress, path |-> NoPath]
ProgressSignal(p)    == [kind |-> "progress", tag |-> "", p |-> p, path |-> NoPath]
FinishedOk(path)     == [kind |-> "finished_ok", tag |-> "", p |-> NoProgress, path |-> path]
Finished             == [kind |-> "finished", tag |-> "", p |-> NoProgress, path |-> NoPath]

NoWorker == [pc |-> "none", paths |-> DEFAULT_SETTINGS, timestamp |-> 0,
             model_name |-> "", data_yaml |-> 0, dataset_name |-> "",
             epochs |-> 0, patience |-> 0, map50 |-> NoMap50,
             expected |-> 0, cur |-> 0, tot |-> 0, raised |-> ""]

\* TrainWorker.__init__ (train.py:87-103)
NewWorker(model_name, yaml, epochs, patience, paths, ds) ==
    [pc |-> "created", paths |-> paths, timestamp |-> 0,
     model_name |-> model_name, data_yaml |-> yaml, dataset_name |-> ds,
     epochs |-> epochs, patience |-> patience, map50 |-> NoMap50,
     expected |-> 0, cur |-> 0, tot |-> epochs, raised |-> ""]

\* model_combo.currentText(): the combo is left on its first item
ModelName == "yolov8n.pt"

\* a click reaches a page only while the overlay, which covers the whole
\* window (overlay.py:38-42), is hidden
CanClick == ~overlay

SelectDataset(y) ==
    /\ CanClick
    /\ data_yaml' = y
    /\ dataset_name' = detect_dataset_from_yaml(y)
    /\ dataset_combo' = ComboIndex(detect_dataset_from_yaml(y))
    /\ last' = "set_dataset_path"
    /\ UNCHANGED <<clock, fsVars, setVars, epoch_input, patience_input, trainVars,
                   viewVars, logVars, yamlVars,
                   browseVars>>

\* mutant of StartRejection: the category check left out
StartRejection_NoCategory(i, et, pt) ==
    IF data_yaml = None THEN "err_no_data_yaml"
    ELSE IF ~IsIntText(et) \/ ~IsIntText(pt) THEN "err_not_integer"
    ELSE ""

\* which of the checks of start_training rejects the form, "" if none
StartRejection(i, et, pt) ==
    IF data_yaml = None THEN "err_no_data_yaml"
    ELSE IF ComboText(i) = CategoryPlaceholder THEN "err_no_category"
    ELSE IF ~IsIntText(et) \/ ~IsIntText(pt) THEN "err_not_integer"
    ELSE ""

\* the widgets hold what the user left in them: the combo, the two line
\* edits have no handler of their own, start_training reads them
FormFilled(i, et, pt) ==
    /\ dataset_combo' = i
    /\ epoch_input' = et
    /\ patience_input' = pt

\* mutant of ButtonDuringRun: btn_start.setEnabled(False) left out
ButtonDuringRun_Enabled == TRUE

\* btn_start.setEnabled(False) (train.py:542)
ButtonDuringRun == FALSE

\* the click on the start button: it reaches start_training only while the
\* button is enabled and not covered
start_training(i, et, pt) ==
    /\ CanClick
    /\ btn_start
    /\ nstarts' = nstarts + 1
    /\ last' = "start_training"
    /\ FormFilled(i, et, pt)
    /\ IF StartRejection(i, et, pt) # ""
       THEN /\ log_box' = Append(log_box, StartRejection(i, et, pt))
            /\ dataset_name' = IF StartRejection(i, et, pt) = "err_not_integer"
                               THEN ComboText(i) ELSE dataset_name
            /\ UNCHANGED <<btn_start, progress_bar, progress_label, worker, queue,
                           run_start_fs, overlay>>
       ELSE /\ dataset_name' = ComboText(i)
            /\ btn_start' = ButtonDuringRun
            /\ progress_bar' = 0
            /\ progress_label' = InitialLabel
            /\ overlay' = TRUE
            /\ worker' = NewWorker(ModelName, data_yaml, IntOf(et), IntOf(pt),
                                   page_paths["train"], ComboText(i))
            /\ run_start_fs' = [models |-> models_fs, hist |-> hist_fs]
            /\ UNCHANGED <<log_box, queue>>
    /\ UNCHANGED <<clock, fsVars, setVars, data_yaml, viewVars, logVars, yamlVars,
                   browseVars>>

StartTraining(i, et, pt) ==
    /\ nstarts < MaxStarts
    /\ start_training(i, et, pt)

\* start_training on the Train page alone, where more clicks are followed
StartTrainingAgain(i, et, pt) ==
    /\ nstarts < MaxTrainStarts
    /\ start_training(i, et, pt)

(***************************************************************************)
(* TrainWorker.run (train.py:196-359), one action per step of the thread   *)
(***************************************************************************)
Emit(sigs) == queue' = queue \o sigs

WorkerStep(pc) ==
    /\ worker.pc = pc
    /\ last' = "worker"
    /\ UNCHANGED <<clock, setVars, formVars, btn_start, progress_bar, progress_label,
                   log_box, nstarts, run_start_fs, overlay, viewVars, logVars, yamlVars,
                   browseVars>>

\* train.py:197-258: the timestamp, the three makedirs and the first log lines
RunBegin ==
    /\ WorkerStep("created")
    /\ worker' = [worker EXCEPT !.pc = "training", !.timestamp = clock]
    /\ dirs' = dirs \cup {worker.paths.runs_dir, worker.paths.models_dir,
                          worker.paths.history_dir}
    /\ Emit(<<LogSignal("start"), LogSignal("data_yaml"), LogSignal("category"),
              LogSignal("device")>>)
    /\ UNCHANGED <<models_fs, run_dirs, run_best, hist_fs>>

\* what the library's output makes of the worker's progress state, through
\* Redirect and _handle_log_line: the progress reports sent while train runs
TrainOutputs == { <<[elapsed |-> 3, expected |-> 8, cur |-> 2, tot |-> 2]>> }

\* time.time() - start_time when train returns
EndTimes    == {4}
Map50Values == {NoMap50, 7}

\* _emit_progress(force_done=True) (train.py:167-194)
ForceDone(w, elapsed) ==
    [elapsed  |-> elapsed,
     expected |-> IF w.expected = 0 \/ w.expected < elapsed THEN elapsed ELSE w.expected,
     cur |-> w.cur, tot |-> w.tot]

AfterOutput(w, out) ==
    IF out = <<>> THEN w
    ELSE [w EXCEPT !.expected = out[Len(out)].expected, !.cur = out[Len(out)].cur,
                   !.tot = out[Len(out)].tot]

OutputSignals(out) == [i \in DOMAIN out |-> ProgressSignal(out[i])]

\* mutant of TrainRaised: the "return" of the except branch left out and the
\* copy steps reached
TrainRaised_NoReturn(w) == [w EXCEPT !.pc = "trained", !.raised = "train"]

\* the except branch of train.py:275-278: run returns
TrainRaised(w) == [w EXCEPT !.pc = "ended", !.raised = "train"]

\* model.train(...): the library creates runs_dir/train_<ts>, may write
\* weights/best.pt, prints, and returns or raises
Train ==
    /\ WorkerStep("training")
    /\ \E raised \in BOOLEAN, best \in BOOLEAN, out \in TrainOutputs,
          elapsed \in EndTimes, map50 \in Map50Values :
          LET rd == <<worker.paths.runs_dir, worker.timestamp>>
              w1 == AfterOutput(worker, out)
              fd == ForceDone(w1, elapsed)
          IN  /\ run_dirs' = run_dirs \cup {rd}
              /\ run_best' = IF best THEN run_best \cup {rd} ELSE run_best
              /\ IF raised
                 THEN /\ worker' = TrainRaised(w1)
                      /\ Emit(OutputSignals(out) \o <<LogSignal("train_failed")>>
                              \o (IF TrainRaised(w1).pc = "ended" THEN <<Finished>> ELSE <<>>))
                 ELSE /\ worker' = [w1 EXCEPT !.pc = "trained", !.map50 = map50,
                                              !.expected = fd.expected]
                      /\ Emit(OutputSignals(out)
                              \o <<ProgressSignal(fd),
                                   LogSignal(IF map50 # NoMap50 /\ map50 # 0
                                             THEN "map50" ELSE "map50_missing")>>)
    /\ UNCHANGED <<dirs, models_fs, hist_fs>>

BestSrc == <<worker.paths.runs_dir, worker.timestamp>>
BestDst == <<worker.paths.models_dir, worker.timestamp>>
HistDir == <<worker.paths.history_dir, worker.timestamp>>

\* shutil.copy(best_src, best_dst) (train.py:329); a missing best.pt raises
\* and the thread ends
CopyModel ==
    /\ WorkerStep("trained")
    /\ IF BestSrc \in run_best
       THEN /\ models_fs' = models_fs \cup {BestDst}
            /\ worker' = [worker EXCEPT !.pc = "model_copied"]
            /\ UNCHANGED queue
       ELSE /\ worker' = [worker EXCEPT !.pc = "ended", !.raised = "copy"]
            /\ Emit(<<Finished>>)
            /\ UNCHANGED models_fs
    /\ UNCHANGED <<dirs, run_dirs, run_best, hist_fs>>

SetNode(h, n, node) == hist_fs' = [hist_fs EXCEPT ![h][n] = node]
WorkerNode == hist_fs[HistDir[1]][HistDir[2]]

\* os.makedirs(hist_dir, exist_ok=True) (train.py:334-335)
MakeHistDir ==
    /\ WorkerStep("model_copied")
    /\ SetNode(HistDir[1], HistDir[2],
               IF WorkerNode.kind = "dir" THEN WorkerNode ELSE [Absent EXCEPT !.kind = "dir"])
    /\ worker' = [worker EXCEPT !.pc = "hist_dir"]
    /\ UNCHANGED <<dirs, models_fs, run_dirs, run_best, queue>>

\* shutil.copy(best_src, hist_dir/best.pt) (train.py:336)
CopyHistBest ==
    /\ WorkerStep("hist_dir")
    /\ SetNode(HistDir[1], HistDir[2], [WorkerNode EXCEPT !.files = @ \cup {"best.pt"}])
    /\ worker' = [worker EXCEPT !.pc = "hist_best"]
    /\ UNCHANGED <<dirs, models_fs, run_dirs, run_best, queue>>

\* mutant of WorkerMeta: epochs and patience exchanged
WorkerMeta_Swapped(w) ==
    [timestamp |-> w.timestamp, data_yaml |-> w.data_yaml, dataset |-> w.dataset_name,
     base_model |-> w.model_name, epochs |-> w.patience, patience |-> w.epochs,
     models_file |-> <<w.paths.models_dir, w.timestamp>>,
     run_dir |-> <<w.paths.runs_dir, w.timestamp>>, map50 |-> w.map50]

\* the meta dictionary of train.py:341-352
WorkerMeta(w) ==
    [timestamp |-> w.timestamp, data_yaml |-> w.data_yaml, dataset |-> w.dataset_name,
     base_model |-> w.model_name, epochs |-> w.epochs, patience |-> w.patience,
     models_file |-> <<w.paths.models_dir, w.timestamp>>,
     run_dir |-> <<w.paths.runs_dir, w.timestamp>>, map50 |-> w.map50]

\* open(metadata.json, "w") (train.py:354): the file exists, empty
OpenMeta ==
    /\ WorkerStep("hist_best")
    /\ SetNode(HistDir[1], HistDir[2],
               [WorkerNode EXCEPT !.files = @ \cup {"metadata.json"},
                                  !.meta_ok = FALSE, !.m = NoMeta])
    /\ worker' = [worker EXCEPT !.pc = "meta_open"]
    /\ UNCHANGED <<dirs, models_fs, run_dirs, run_best, queue>>

\* json.dump(meta, f) and the close of the with block (train.py:355)
DumpMeta ==
    /\ WorkerStep("meta_open")
    /\ SetNode(HistDir[1], HistDir[2],
               [WorkerNode EXCEPT !.meta_ok = TRUE, !.m = WorkerMeta(worker)])
    /\ worker' = [worker EXCEPT !.pc = "meta_written"]
    /\ UNCHANGED <<dirs, models_fs, run_dirs, run_best, queue>>

\* train.py:357-359 and the return of run: QThread emits finished
EmitFinished ==
    /\ WorkerStep("meta_written")
    /\ worker' = [worker EXCEPT !.pc = "ended"]
    /\ Emit(<<LogSignal("train_complete"), LogSignal("train_time"),
              FinishedOk(BestDst), Finished>>)
    /\ UNCHANGED fsVars

(***************************************************************************)
(* The GUI thread handles the queued signals in the order they were sent   *)
(***************************************************************************)
Handle(kind) ==
    /\ queue # <<>>
    /\ Head(queue).kind = kind
    /\ queue' = Tail(queue)
    /\ UNCHANGED <<clock, fsVars, setVars, formVars, worker, nstarts, run_start_fs,
                   logVars, yamlVars,
                   browseVars>>

\* log_signal -> log_box.append
AppendLog ==
    /\ Handle("log")
    /\ log_box' = Append(log_box, Head(queue).tag)
    /\ last' = "log_box_append"
    /\ UNCHANGED <<btn_start, progress_bar, progress_label, overlay, viewVars>>

\* train.py:501-517
on_progress_update ==
    /\ Handle("progress")
    /\ LET p == Head(queue).p IN
       /\ progress_bar' = ProgressPercent(p)
       /\ progress_label' = [progress |-> ProgressPercent(p), elapsed |-> p.elapsed,
                             expected |-> p.expected, cur |-> p.cur, tot |-> p.tot]
    /\ last' = "on_progress_update"
    /\ UNCHANGED <<btn_start, log_box, overlay, viewVars>>

\* train.py:577-579 and the slots main.py:128-133 connects to
\* model_saved_signal, which run inside the emit, in connection order
on_model_saved ==
    /\ Handle("finished_ok")
    /\ LET r == refresh_model_list(hist_fs, dirs, page_paths["predict"],
                                   latest_train_timestamp) IN
       /\ model_combo' = r.combo
       /\ latest_train_timestamp' = r.latest
    /\ all_entries' = reload_history(hist_fs, dirs, page_paths["history"])
    /\ filtered_entries' = apply_filter(reload_history(hist_fs, dirs, page_paths["history"]))
    /\ current_page' = 0
    /\ mc_cards' = reload_models(hist_fs, dirs, page_paths["model_comparison"], mc_cards)
    /\ dash_entries' = reload_data(hist_fs, dirs, page_paths["dashboard"])
    /\ log_box' = Append(log_box, "model_saved")
    /\ last' = "on_model_saved"
    /\ UNCHANGED <<btn_start, progress_bar, progress_label, overlay>>

\* mutant of DoneProgress: the final setValue(100) left out
DoneProgress_Keep(v) == v

\* train.py:573-575
DoneProgress(v) == IF v < 100 THEN 100 ELSE v

\* train.py:567-575
training_done ==
    /\ Handle("finished")
    /\ overlay' = FALSE
    /\ btn_start' = TRUE
    /\ log_box' = Append(log_box, "training_end")
    /\ progress_bar' = DoneProgress(progress_bar)
    /\ last' = "training_done"
    /\ UNCHANGED <<progress_label, viewVars>>

(***************************************************************************)
(* SettingsPage.save_clicked -> MainWindow.update_settings                 *)
(* (settings.py:84-93, main.py:141-155)                                    *)
(***************************************************************************)
\* hasattr(page, "update_paths"): ModelComparisonPage defines no
\* update_paths (model_comparison.py:192-313)
HasUpdatePaths(page) == page # "model_comparison"

save_clicked(new) ==
    /\ CanClick
    /\ settings' = new
    /\ LET paths == [p \in Pages |-> IF HasUpdatePaths(p) THEN new ELSE page_paths[p]]
           \* DatasetPage.update_paths (dataset.py:76-80) creates its directories
           ds    == dirs \cup {new.dataset_dir, new.temp_dir}
           r     == refresh_model_list(hist_fs, ds, paths["predict"], latest_train_timestamp)
       IN  /\ page_paths' = paths
           /\ dataset_page' = [dataset_dir |-> new.dataset_dir, temp_dir |-> new.temp_dir]
           /\ dirs' = ds
           \* DashboardPage.update_paths, PredictPage.update_paths,
           \* HistoryPage.update_paths
           /\ dash_entries' = reload_data(hist_fs, ds, paths["dashboard"])
           /\ model_combo' = r.combo
           /\ latest_train_timestamp' = r.latest
           /\ all_entries' = reload_history(hist_fs, ds, paths["history"])
           /\ filtered_entries' = apply_filter(reload_history(hist_fs, ds, paths["history"]))
           /\ current_page' = 0
           /\ mc_cards' = IF HasUpdatePaths("model_comparison")
                          THEN reload_models(hist_fs, ds, paths["model_comparison"], mc_cards)
                          ELSE mc_cards
    /\ last' = "save_clicked"
    /\ UNCHANGED <<clock, models_fs, run_dirs, run_best, hist_fs, formVars, trainVars,
                   logVars, yamlVars,
                   browseVars>>

\* a minute passes.  Only RunBegin reads the clock (train.py:197), so the
\* minutes are counted when they pass before that read: between two runs
\* the clock stays or advances, as it does in the program.
Tick ==
    /\ clock < MaxClock
    /\ worker.pc = "created"
    /\ clock' = clock + 1
    /\ last' = "tick"
    /\ UNCHANGED <<fsVars, setVars, formVars, trainVars, viewVars, logVars, yamlVars,
                   browseVars>>

(***************************************************************************)
(* The state after MainWindow.__init__                                     *)
(***************************************************************************)
\* what the history directory of the default settings holds at start-up:
\* stray names and the entry of a run of an earlier session.  (The history
\* directory of the other settings does not exist until a run creates it.)
FirstMinute == 1
OldRun == 1
InitialStray == StrayNames \cup {OldRun}

\* the worker of an earlier session that ran in minute n
OldWorkerAt(n) == [NoWorker EXCEPT !.timestamp = n, !.model_name = ModelName,
                                   !.data_yaml = 1, !.dataset_name = "human",
                                   !.epochs = 30, !.patience = 10, !.map50 = 7]

OldWorker == OldWorkerAt(OldRun)

InitialNode(n) ==
    IF n \in StrayNames THEN StrayNode(n)
    ELSE [kind |-> "dir", files |-> {"best.pt", "metadata.json"}, meta_ok |-> TRUE,
          m |-> WorkerMeta(OldWorkerAt(n))]

\* PredictPage.__init__ (predict.py:73-79) and the observations of the
\* Predict and History buttons before any click
NoPredictWorker == [pc |-> "none", model_path |-> NoPath, save_dir |-> NoPath]
NoPredCall == [selected |-> FALSE, text |-> "", history |-> FALSE, raised |-> FALSE]
NoDelCall  == [row |-> 0 - 1, answer |-> "", found |-> FALSE, history_dir |-> NoPath,
               models_file |-> NoPath, run_dir |-> NoPath, failed |-> {}]

BrowseIdle ==
    /\ selected_path = None
    /\ pred_log = <<>>
    /\ pred_worker = NoPredictWorker
    /\ pred_dirs = {}
    /\ pred_call = NoPredCall
    /\ del_call = NoDelCall
    /\ nclicks = 0

AppInit(stray) ==
    /\ clock = FirstMinute
    /\ dirs = {DEFAULT_SETTINGS.dataset_dir, DEFAULT_SETTINGS.temp_dir}
              \cup (IF stray = {} THEN {}
                    ELSE {DEFAULT_SETTINGS.history_dir, DEFAULT_SETTINGS.models_dir,
                          DEFAULT_SETTINGS.runs_dir})
    /\ models_fs = {<<DEFAULT_SETTINGS.models_dir, n>> : n \in stray \cap Timestamps}
    /\ run_dirs = {<<DEFAULT_SETTINGS.runs_dir, n>> : n \in stray \cap Timestamps}
    /\ run_best = run_dirs
    /\ hist_fs = [h \in HistoryDirs |-> [n \in Names |->
                    IF h = DEFAULT_SETTINGS.history_dir /\ n \in stray
                    THEN InitialNode(n) ELSE Absent]]
    /\ settings = DEFAULT_SETTINGS
    /\ page_paths = [p \in Pages |-> DEFAULT_SETTINGS]
    /\ dataset_page = [dataset_dir |-> DEFAULT_SETTINGS.dataset_dir,
                       temp_dir |-> DEFAULT_SETTINGS.temp_dir]
    /\ overlay = FALSE
    /\ data_yaml = None
    /\ dataset_name = "unknown"
    /\ dataset_combo = 0
    /\ epoch_input = <<"3", "0">>
    /\ patience_input = <<"1", "0">>
    /\ btn_start = TRUE
    /\ progress_bar = 0
    /\ progress_label = InitialLabel
    /\ log_box = <<>>
    /\ worker = NoWorker
    /\ queue = <<>>
    /\ nstarts = 0
    /\ run_start_fs = [models |-> models_fs, hist |-> hist_fs]
    /\ all_entries = reload_history(hist_fs, dirs, DEFAULT_SETTINGS)
    /\ filtered_entries = apply_filter(all_entries)
    /\ current_page = 0
    /\ model_combo = refresh_model_list(hist_fs, dirs, DEFAULT_SETTINGS, None).combo
    /\ latest_train_timestamp = refresh_model_list(hist_fs, dirs, DEFAULT_SETTINGS, None).latest
    /\ mc_cards = reload_models(hist_fs, dirs, DEFAULT_SETTINGS, <<>>)
    /\ dash_entries = reload_data(hist_fs, dirs, DEFAULT_SETTINGS)
    /\ last = "init"
    /\ BrowseIdle

AppIdle == AppInit({})

(***************************************************************************)
(* TrainWorker._handle_log_line and the Redirect stream (train.py)         *)
(***************************************************************************)
\* re.search(r"^\s*(\d+)/(\d+)\s", line): the greedy scan; a shorter digit
\* run can never be followed by "/" or by whitespace, so backtracking adds
\* no match.
EpochMatch(line) ==
    LET a     == RunLen(line, 1, Whitespace)
        d1    == RunLen(line, a + 1, Digits)
        slash == a + d1 + 1
        d2    == RunLen(line, slash + 1, Digits)
        after == slash + d2 + 1
    IN  [ok    |-> /\ d1 > 0
                   /\ slash <= Len(line) /\ line[slash] = "/"
                   /\ d2 > 0
                   /\ after <= Len(line) /\ line[after] \in Whitespace,
         ep    |-> ToInt(SubSeq(line, a + 1, a + d1)),
         total |-> ToInt(SubSeq(line, slash + 1, slash + d2))]

LogEvent(line)          == [k |-> "log", line |-> line, ep |-> 0, tot |-> 0]
EtaEvent                == [k |-> "eta", line |-> <<>>, ep |-> 0, tot |-> 0]
ProgressEvent(line, st) == [k |-> "progress", line |-> line,
                            ep |-> st.current_epoch, tot |-> st.total_epochs]

\* self.callback(line): log_signal.emit
Callback(st, line) == [st EXCEPT !.events = Append(@, LogEvent(line))]

\* mutant of HandleLogLine: current_epoch assigned without the "ep >" test
HandleLogLine_NoMax(st, line) ==
    LET m   == EpochMatch(line)
        te  == IF m.ok /\ m.total > 0 THEN m.total ELSE st.total_epochs
        ce  == IF m.ok THEN m.ep ELSE st.current_epoch
        fs  == st.first_epoch_seen \/ (m.ok /\ m.ep = 1)
        eta == m.ok /\ m.ep >= 2 /\ ~st.epoch1_end_seen
        s1  == [st EXCEPT !.total_epochs = te, !.current_epoch = ce,
                          !.first_epoch_seen = fs,
                          !.epoch1_end_seen = @ \/ eta,
                          !.events = IF eta THEN Append(@, EtaEvent) ELSE @]
    IN  [s1 EXCEPT !.events = Append(@, ProgressEvent(line, s1))]

\* the worker state a log line changes, as one record
HandleLogLine(st, line) ==
    LET m   == EpochMatch(line)
        te  == IF m.ok /\ m.total > 0 THEN m.total ELSE st.total_epochs
        ce  == IF m.ok /\ m.ep > st.current_epoch THEN m.ep ELSE st.current_epoch
        fs  == st.first_epoch_seen \/ (m.ok /\ m.ep = 1)
        eta == m.ok /\ m.ep >= 2 /\ ~st.epoch1_end_seen
        s1  == [st EXCEPT !.total_epochs = te, !.current_epoch = ce,
                          !.first_epoch_seen = fs,
                          !.epoch1_end_seen = @ \/ eta,
                          !.events = IF eta THEN Append(@, EtaEvent) ELSE @]
    IN  [s1 EXCEPT !.events = Append(@, ProgressEvent(line, s1))]

\* mutant of Drain: "if" in place of "while", one line per write call
Drain_Once(st) ==
    LET i == IndexNL(st.buffer, 1) IN
    IF i = 0 THEN st
    ELSE LET line == RStripCR(SubSeq(st.buffer, 1, i - 1))
             s1   == [st EXCEPT !.buffer = SubSeq(@, i + 1, Len(@))]
         IN  IF Strip(line) # <<>>
             THEN HandleLogLine(Callback(s1, Strip(line)), Strip(line))
             ELSE s1

\* the while loop of Redirect.write
RECURSIVE Drain(_)
Drain(st) ==
    LET i == IndexNL(st.buffer, 1) IN
    IF i = 0 THEN st
    ELSE LET line == RStripCR(SubSeq(st.buffer, 1, i - 1))
             s1   == [st EXCEPT !.buffer = SubSeq(@, i + 1, Len(@))]
         IN  Drain(IF Strip(line) # <<>>
                   THEN HandleLogLine(Callback(s1, Strip(line)), Strip(line))
                   ELSE s1)

RedirectWrite(st, text) == Drain([st EXCEPT !.buffer = @ \o text])

RedirectFlush(st) ==
    IF Strip(st.buffer) # <<>>
    THEN [HandleLogLine(Callback(st, Strip(st.buffer)), Strip(st.buffer))
            EXCEPT !.buffer = <<>>]
    ELSE st

WorkerLogState == [buffer |-> buffer, events |-> events,
                   current_epoch |-> current_epoch, total_epochs |-> total_epochs,
                   first_epoch_seen |-> first_epoch_seen,
                   epoch1_end_seen |-> epoch1_end_seen]

SetWorkerLogState(st) ==
    /\ buffer' = st.buffer
    /\ events' = st.events
    /\ current_epoch' = st.current_epoch
    /\ total_epochs' = st.total_epochs
    /\ first_epoch_seen' = st.first_epoch_seen
    /\ epoch1_end_seen' = st.epoch1_end_seen

\* the texts the library prints, as the chunks it passes to write
Chunks == { <<"1", "/", "2", SP, "a", NL>>,
            <<"2", "/">>,
            <<"3", SP, "a", CR, NL>>,
            <<SP, NL>>,
            <<"a", NL, SP, "1", "/", "0", SP, "b", NL, "x">>,
            <<"2", "/", "2", NL>>,
            <<"3", "0", "/", "3", "a", SP>> }

\* the epochs argument of the worker (TrainWorker.__init__: total_epochs = epochs)
WorkerEpochs == {0, 30}

Write(text) ==
    /\ nwrites < MaxWrites
    /\ SetWorkerLogState(RedirectWrite(WorkerLogState, text))
    /\ written' = written \o text
    /\ nwrites' = nwrites + 1
    /\ UNCHANGED <<flushed, yamlVars, appVars>>

\* flush forwards the tail as a line of its own: in the observation it acts
\* as a line terminator
Flush ==
    /\ nwrites < MaxWrites
    /\ SetWorkerLogState(RedirectFlush(WorkerLogState))
    /\ written' = IF Strip(buffer) # <<>> THEN Append(written, NL) ELSE written
    /\ flushed' = (flushed \/ Strip(buffer) # <<>>)
    /\ nwrites' = nwrites + 1
    /\ UNCHANGED <<yamlVars, appVars>>

LogIdle ==
    /\ buffer = <<>>
    /\ events = <<>>
    /\ written = <<>>
    /\ flushed = FALSE
    /\ nwrites = 0
    /\ current_epoch = 0
    /\ first_epoch_seen = FALSE
    /\ epoch1_end_seen = FALSE

YamlIdle ==
    /\ yaml_files = {}
    /\ yaml_result = [called |-> FALSE, seen |-> {}, path |-> 0]

InitLog ==
    /\ LogIdle
    /\ total_epochs \in WorkerEpochs
    /\ YamlIdle
    /\ AppIdle

NextLog == (\E text \in Chunks : Write(text)) \/ Flush

SpecLog == InitLog /\ [][NextLog]_vars

(***************************************************************************)
(* DatasetPage.find_yaml_in_dataset_dir (dataset.py:163-174)               *)
(* A path is a number; the order of the numbers is the string order of the *)
(* paths.  0 stands for None.                                              *)
(***************************************************************************)
YamlPaths  == 1 .. MaxYaml
YamlMtimes == {1, 2}

\* mutant of CandLess: the tuple built as (full, mtime)
CandLess_PathFirst(a, b) == a.path < b.path \/ (a.path = b.path /\ a.mtime < b.mtime)

\* tuple comparison of (mtime, full)
CandLess(a, b) == a.mtime < b.mtime \/ (a.mtime = b.mtime /\ a.path < b.path)

\* candidates.sort(reverse=True): insertion into a descending list
RECURSIVE InsertDesc(_, _)
InsertDesc(c, s) ==
    IF s = <<>> THEN <<c>>
    ELSE IF CandLess(Head(s), c) THEN <<c>> \o s
    ELSE <<Head(s)>> \o InsertDesc(c, Tail(s))

RECURSIVE SortCandidatesDesc(_)
SortCandidatesDesc(s) ==
    IF s = <<>> THEN <<>> ELSE InsertDesc(Head(s), SortCandidatesDesc(Tail(s)))

\* candidates is the list in os.walk order
find_yaml_in_dataset_dir(candidates) ==
    IF candidates = <<>> THEN None
    ELSE SortCandidatesDesc(candidates)[1].path

\* the orders in which os.walk can visit a set of files
WalkOrders(S) ==
    {s \in [1 .. Cardinality(S) -> S] : \A i, j \in DOMAIN s : i # j => s[i] # s[j]}

FindYamlCall ==
    /\ \E order \in WalkOrders(yaml_files) :
          yaml_result' = [called |-> TRUE, seen |-> yaml_files,
                          path |-> find_yaml_in_dataset_dir(order)]
    /\ UNCHANGED <<yaml_files, logVars, appVars>>

\* the Roboflow script (or the user) writes or rewrites a data.yaml
DownloadYaml(p, m) ==
    /\ yaml_files' = {f \in yaml_files : f.path # p} \cup {[path |-> p, mtime |-> m]}
    /\ UNCHANGED <<yaml_result, logVars, appVars>>

InitYaml ==
    /\ LogIdle
    /\ total_epochs = 0
    /\ YamlIdle
    /\ AppIdle

NextYaml ==
    \/ FindYamlCall
    \/ \E p \in YamlPaths, m \in YamlMtimes : DownloadYaml(p, m)

SpecYaml == InitYaml /\ [][NextYaml]_vars

(***************************************************************************)
(* HistoryPage: the selected row and delete_selected (history.py:320-328,  *)
(* history.py:449-495)                                                     *)
(***************************************************************************)
page_size == 10

\* table.currentRow(): -1 when no row is current, else a row of the table
TableRows == (0 - 1) .. (Min(Len(filtered_entries), page_size) - 1)

\* _get_selected_entry: the index into filtered_entries, 0 when there is none
SelectedIndex(row) ==
    IF row < 0 THEN 0
    ELSE LET idx == current_page * page_size + row
         IN  IF 0 <= idx /\ idx < Len(filtered_entries) THEN idx + 1 ELSE 0

\* the buttons of QMessageBox.question; Escape answers with the default, No
Answers == {"Yes", "No"}

\* mutant of Confirmed: the answer of the dialog is not looked at
Confirmed_Always(answer) == TRUE

\* history.py:467
Confirmed(answer) == answer = "Yes"

\* which of os.remove / shutil.rmtree raise; each is in a try with a bare
\* except that passes (history.py:471-489)
DeleteFailures == {{}, {"history"}, {"model", "run"}}

delete_selected(row, answer, failed) ==
    /\ CanClick
    /\ nclicks < MaxClicks
    /\ nclicks' = nclicks + 1
    /\ last' = "delete_selected"
    /\ LET k == SelectedIndex(row) IN
       IF k = 0
       THEN /\ del_call' = [NoDelCall EXCEPT !.row = row]
            /\ UNCHANGED <<fsVars, pred_dirs, viewVars>>
       ELSE LET entry == filtered_entries[k]
                mf == entry.models_file
                rd == entry.run_dir
                hd == entry.history_dir
                call == [row |-> row, answer |-> answer, found |-> TRUE, history_dir |-> hd,
                         models_file |-> mf, run_dir |-> rd, failed |-> {}]
            IN  IF ~Confirmed(answer)
                THEN /\ del_call' = call
                     /\ UNCHANGED <<fsVars, pred_dirs, viewVars>>
                ELSE LET rm_model == mf \in models_fs /\ "model" \notin failed
                         rm_run   == rd \in run_dirs /\ "run" \notin failed
                         rm_hist  == hist_fs[hd[1]][hd[2]].kind = "dir" /\ "history" \notin failed
                         fs == IF rm_hist
                               THEN [hist_fs EXCEPT ![hd[1]][hd[2]] = Absent]
                               ELSE hist_fs
                     IN  /\ del_call' = [call EXCEPT !.failed = failed]
                         /\ models_fs' = IF rm_model THEN models_fs \ {mf} ELSE models_fs
                         /\ run_dirs' = IF rm_run THEN run_dirs \ {rd} ELSE run_dirs
                         /\ run_best' = IF rm_run THEN run_best \ {rd} ELSE run_best
                         /\ hist_fs' = fs
                         /\ pred_dirs' = IF rm_hist THEN pred_dirs \ {hd} ELSE pred_dirs
                         \* reload_history (history.py:492)
                         /\ all_entries' = reload_history(fs, dirs, page_paths["history"])
                         /\ filtered_entries' =
                               apply_filter(reload_history(fs, dirs, page_paths["history"]))
                         /\ current_page' = 0
                         /\ UNCHANGED <<dirs, model_combo, latest_train_timestamp, mc_cards,
                                        dash_entries>>
    /\ UNCHANGED <<clock, setVars, formVars, trainVars, selected_path, pred_log,
                   pred_worker, pred_call, logVars, yamlVars>>

(***************************************************************************)
(* PredictPage: select_file, run_predict and the PredictWorker             *)
(* (predict.py:254-261, 297-338, 32-65, 358-362)                           *)
(***************************************************************************)
\* the files the user can pick in the file dialog
SourceFiles == {1}

\* the file is picked once: every pick appends a line to the log
select_file(f) ==
    /\ CanClick
    /\ selected_path = None
    /\ selected_path' = f
    /\ pred_log' = Append(pred_log, "selected")
    /\ last' = "select_file"
    /\ UNCHANGED <<clock, fsVars, setVars, formVars, trainVars, viewVars, pred_worker,
                   pred_dirs, pred_call, del_call, nclicks, logVars, yamlVars>>

\* the current item of model_combo: after clear() and addItem the first item,
\* a disabled header, is current; the user can make any model item current
ComboCurrent ==
    IF model_combo = <<>> THEN {0}
    ELSE {1} \cup {k \in DOMAIN model_combo : ~model_combo[k].header}

\* model_combo.currentText(): "" for an empty combo, "--- label ---" for a
\* header, "<timestamp> | <model file>" for a model
CurrentText(k) ==
    IF k = 0 THEN "empty" ELSE IF model_combo[k].header THEN "header" ELSE "model"

\* "---" in display_text (predict.py:303)
IsHeaderText(text) == text = "header"

\* display_text.split("|")[1] (predict.py:307) raises IndexError when the
\* text holds no "|"
SplitRaises(text) == text = "empty"

\* what stops run_predict, in the order of the code: an error line, the
\* IndexError of the split, or nothing ("")
PredictRejection(k) ==
    IF selected_path = None THEN "err_no_file"
    ELSE IF IsHeaderText(CurrentText(k)) THEN "err_no_model"
    ELSE IF SplitRaises(CurrentText(k)) THEN "IndexError"
    ELSE IF latest_train_timestamp = None THEN "err_no_history"
    ELSE ""

\* there is training history on disk where the Predict page looks for it
HistoryOnDisk ==
    LET paths == page_paths["predict"]
    IN  /\ paths.history_dir \in dirs
        /\ ScanModels(hist_fs, paths.history_dir, ListDir(hist_fs, paths.history_dir)) # <<>>

run_predict(k) ==
    /\ CanClick
    /\ nclicks < MaxClicks
    /\ nclicks' = nclicks + 1
    /\ last' = "run_predict"
    /\ pred_call' = [selected |-> selected_path # None, text |-> CurrentText(k),
                     history |-> HistoryOnDisk,
                     raised |-> PredictRejection(k) = "IndexError"]
    /\ IF PredictRejection(k) = "IndexError"
       THEN UNCHANGED <<pred_log, pred_worker, pred_dirs, overlay, dirs, hist_fs>>
       ELSE IF PredictRejection(k) # ""
       THEN /\ pred_log' = Append(pred_log, PredictRejection(k))
            /\ UNCHANGED <<pred_worker, pred_dirs, overlay, dirs, hist_fs>>
       ELSE LET paths == page_paths["predict"]
                h     == paths.history_dir
                n     == latest_train_timestamp
                node  == hist_fs[h][n]
            IN  \* os.makedirs(predict_root), os.makedirs(save_dir) (predict.py:319-323)
                /\ dirs' = dirs \cup {h}
                /\ hist_fs' = [hist_fs EXCEPT ![h][n] =
                                  [node EXCEPT !.kind = "dir",
                                               !.files = node.files \cup {"predict_log"}]]
                /\ pred_dirs' = pred_dirs \cup {<<h, n>>}
                /\ overlay' = TRUE
                /\ pred_worker' = [pc |-> "running",
                                   model_path |-> <<paths.models_dir, model_combo[k].model_file>>,
                                   save_dir |-> <<h, n>>]
                /\ UNCHANGED pred_log
    /\ UNCHANGED <<clock, models_fs, run_dirs, run_best, setVars, formVars, btn_start,
                   progress_bar, progress_label, log_box, worker, queue, nstarts,
                   run_start_fs, viewVars, selected_path, del_call, logVars, yamlVars>>

\* PredictWorker.run (predict.py:32-65): YOLO(model_path) raises when the
\* model file is gone, and then finished_ok is never emitted
PredictWorkerRun ==
    /\ pred_worker.pc = "running"
    /\ pred_worker' = [pred_worker EXCEPT
                          !.pc = IF pred_worker.model_path \in models_fs
                                 THEN "done" ELSE "failed"]
    /\ last' = "predict_worker"
    /\ UNCHANGED <<clock, fsVars, setVars, formVars, trainVars, viewVars, selected_path,
                   pred_log, pred_dirs, pred_call, del_call, nclicks, logVars, yamlVars>>

\* predict.py:358-362, the slot of finished_ok
predict_finished ==
    /\ pred_worker.pc = "done"
    /\ pred_worker' = [pred_worker EXCEPT !.pc = "finished"]
    /\ pred_log' = Append(pred_log, "saved")
    /\ overlay' = FALSE
    /\ last' = "predict_finished"
    /\ UNCHANGED <<clock, fsVars, setVars, formVars, btn_start, progress_bar,
                   progress_label, log_box, worker, queue, nstarts, run_start_fs, viewVars,
                   selected_path, pred_dirs, pred_call, del_call, nclicks, logVars,
                   yamlVars>>

(***************************************************************************)
(* Browsing the history of earlier sessions: the History and Predict       *)
(* pages and the Settings page, with no training run                       *)
(***************************************************************************)
InitBrowse ==
    /\ AppInit(StrayNames \cup Timestamps)
    /\ LogIdle
    /\ total_epochs = 0
    /\ YamlIdle

NextBrowse ==
    \/ \E row \in TableRows, answer \in Answers, failed \in DeleteFailures :
          delete_selected(row, answer, failed)
    \/ \E f \in SourceFiles : select_file(f)
    \/ \E k \in ComboCurrent : run_predict(k)
    \/ PredictWorkerRun
    \/ predict_finished
    \/ \E new \in SettingsChoices : save_clicked(new)

SpecBrowse == InitBrowse /\ [][NextBrowse]_vars

(***************************************************************************)
(* The application                                                         *)
(***************************************************************************)
Init ==
    /\ AppInit(InitialStray)
    /\ LogIdle
    /\ total_epochs = 0
    /\ YamlIdle

Next ==
    \/ Tick
    \/ \E y \in YamlChoices : SelectDataset(y)
    \/ \E i \in ComboChoices \cup {dataset_combo},
          et \in EpochTexts, pt \in PatienceTexts \cup {patience_input} :
          StartTraining(i, et, pt)
    \/ RunBegin
    \/ Train
    \/ CopyModel
    \/ MakeHistDir
    \/ CopyHistBest
    \/ OpenMeta
    \/ DumpMeta
    \/ EmitFinished
    \/ AppendLog
    \/ on_progress_update
    \/ on_model_saved
    \/ training_done
    \/ \E new \in SettingsChoices : save_clicked(new)

Spec == Init /\ [][Next]_vars

(***************************************************************************)
(* The Train page alone: the settings stay as they are and so does the     *)
(* minute, so that two runs write the same timestamp                       *)
(***************************************************************************)
NextTrain ==
    \/ \E y \in YamlChoices : SelectDataset(y)
    \/ \E i \in ComboChoices \cup {dataset_combo},
          et \in EpochTexts, pt \in PatienceTexts \cup {patience_input} :
          StartTrainingAgain(i, et, pt)
    \/ RunBegin
    \/ Train
    \/ CopyModel
    \/ MakeHistDir
    \/ CopyHistBest
    \/ OpenMeta
    \/ DumpMeta
    \/ EmitFinished
    \/ AppendLog
    \/ on_progress_update
    \/ on_model_saved
    \/ training_done

SpecTrain == Init /\ [][NextTrain]_vars

\* the slots connected to the worker's signals
Deliver == AppendLog \/ on_progress_update \/ on_model_saved \/ training_done

\* the Qt event loop of the GUI thread takes the queued signal at the head of
\* its queue and runs the connected slot; within Next the steps that remove
\* the head of the queue are exactly the steps of Deliver, and one of them is
\* enabled whenever the queue is not empty (every signal has a slot)
DeliverHead == queue # <<>> /\ queue' = Tail(queue)

FairSpec == Spec /\ WF_queue(DeliverHead)

(***************************************************************************)
(* Claims about find_yaml_in_dataset_dir, checked under SpecYaml           *)
(***************************************************************************)
\* C4: find_yaml_in_dataset_dir returns the path of a data.yaml whose
\* modification time is the greatest among all data.yaml files under
\* dataset_dir, and None when there is no data.yaml.
C4_FindYamlNewest ==
    yaml_result.called =>
        IF yaml_result.seen = {}
        THEN yaml_result.path = None
        ELSE \E f \in yaml_result.seen :
                /\ f.path = yaml_result.path
                /\ \A g \in yaml_result.seen : g.mtime <= f.mtime

\* a call made with several files where the newest is not the last path
C4_Witness ==
    /\ yaml_result.called
    /\ \E f, g \in yaml_result.seen :
          /\ f.path < g.path /\ f.mtime > g.mtime
          /\ yaml_result.path = f.path

(***************************************************************************)
(* Claims about the redirected stream, checked under SpecLog               *)
(***************************************************************************)
\* the claim's reading of an epoch line: optional whitespace, a number, "/",
\* a number, whitespace.  The set of <<epoch, total>> a line spells (empty
\* when it is not an epoch line).
ClaimEpochLine(line) ==
    LET cuts == {t \in (0 .. Len(line)) \X (1 .. Len(line)) \X (1 .. Len(line)) :
                    /\ t[1] < t[2] /\ t[2] + 1 < t[3] /\ t[3] < Len(line)
                    /\ \A i \in 1 .. t[1] : line[i] \in Whitespace
                    /\ \A i \in t[1] + 1 .. t[2] : line[i] \in Digits
                    /\ line[t[2] + 1] = "/"
                    /\ \A i \in t[2] + 2 .. t[3] : line[i] \in Digits
                    /\ line[t[3] + 1] \in Whitespace}
    IN  {<<ToInt(SubSeq(line, t[1] + 1, t[2])), ToInt(SubSeq(line, t[2] + 2, t[3]))>> :
            t \in cuts}

\* the lines handed to _handle_log_line so far
HandledLines(ev) == {ev[i].line : i \in {j \in DOMAIN ev : ev[j].k = "progress"}}

SeenEpochs(ev) == {p[1] : p \in UNION {ClaimEpochLine(l) : l \in HandledLines(ev)}}

SeenTotals(ev) == {p[2] : p \in UNION {ClaimEpochLine(l) : l \in HandledLines(ev)}}

SetMax(S) == IF S = {} THEN 0 ELSE CHOOSE x \in S : \A y \in S : y <= x

\* C5: current_epoch is the largest epoch number seen on an epoch line (0 if
\* none), it never decreases, and total_epochs changes only to a positive
\* total parsed from an epoch line.
C5_EpochTracking ==
    /\ [](current_epoch = SetMax(SeenEpochs(events)))
    /\ [][/\ current_epoch' >= current_epoch
          /\ total_epochs' # total_epochs =>
                (total_epochs' > 0 /\ total_epochs' \in SeenTotals(events'))]_vars

\* an epoch line with a smaller epoch and a line with total 0 have been seen
\* after a larger epoch, and total_epochs was replaced
C5_Witness ==
    /\ current_epoch = 2
    /\ 1 \in SeenEpochs(events)
    /\ events[Len(events)].ep = 2
    /\ ClaimEpochLine(events[Len(events)].line) = {<<1, 2>>}
    /\ total_epochs = 2

\* the lines the log callback received, in order
RECURSIVE Forwarded(_)
Forwarded(ev) ==
    IF ev = <<>> THEN <<>>
    ELSE IF Head(ev).k = "log" THEN <<Head(ev).line>> \o Forwarded(Tail(ev))
    ELSE Forwarded(Tail(ev))

\* the stripped non-blank newline-terminated lines of a text
RECURSIVE TerminatedLines(_, _)
TerminatedLines(text, cur) ==
    IF text = <<>> THEN <<>>
    ELSE IF Head(text) = NL
         THEN (IF Strip(cur) # <<>> THEN <<Strip(cur)>> ELSE <<>>)
              \o TerminatedLines(Tail(text), <<>>)
         ELSE TerminatedLines(Tail(text), Append(cur, Head(text)))

RECURSIVE UnterminatedTail(_, _)
UnterminatedTail(text, cur) ==
    IF text = <<>> THEN cur
    ELSE IF Head(text) = NL THEN UnterminatedTail(Tail(text), <<>>)
    ELSE UnterminatedTail(Tail(text), Append(cur, Head(text)))

\* the log callback and the progress handler, without the ETA notice
RECURSIVE LineCalls(_)
LineCalls(ev) ==
    IF ev = <<>> THEN <<>>
    ELSE IF Head(ev).k = "eta" THEN LineCalls(Tail(ev))
    ELSE <<Head(ev)>> \o LineCalls(Tail(ev))

\* C6: the log callback receives exactly the stripped non-blank terminated
\* lines of the written text, once each and in order, however the text was
\* split over write calls; per line the log callback precedes the progress
\* handler; the unterminated tail stays in the buffer until a newline or a
\* flush (which counts as a terminator in "written").
C6_LinesForwarded ==
    /\ Forwarded(events) = TerminatedLines(written, <<>>)
    /\ buffer = UnterminatedTail(written, <<>>)
    /\ LET lc == LineCalls(events) IN
       /\ Len(lc) % 2 = 0
       /\ \A i \in DOMAIN lc :
             IF i % 2 = 1
             THEN lc[i].k = "log"
             ELSE lc[i].k = "progress" /\ lc[i].line = lc[i - 1].line

\* a line split over two write calls was forwarded whole, two lines came out
\* of the stream and a tail is held back, with no flush involved
C6_Witness ==
    /\ ~flushed
    /\ nwrites = 3
    /\ \E i \in DOMAIN events :
          events[i].k = "log" /\ events[i].line = <<"2", "/", "3", SP, "a">>
    /\ Len(Forwarded(events)) >= 2
    /\ buffer # <<>>


(***************************************************************************)
(* Claims about the application, checked under Spec and FairSpec           *)
(***************************************************************************)
QueueKinds == {queue[i].kind : i \in DOMAIN queue}
QueueTags  == {queue[i].tag : i \in DOMAIN queue}
FinishedOkPending == "finished_ok" \in QueueKinds
FinishedPending   == "finished" \in QueueKinds

\* the history entry of the current worker
RunEntry == hist_fs[worker.paths.history_dir][worker.timestamp]

\* a file of an entry directory that is neither the checkpoint, nor the
\* metadata record, nor the prediction log: a metrics snapshot
MetricsSnapshot(f) == f \notin {"best.pt", "metadata.json", "predict_log"}

MetadataNeedsCheckpoint ==
    \A h \in HistoryDirs, n \in Timestamps :
        "metadata.json" \in hist_fs[h][n].files => "best.pt" \in hist_fs[h][n].files

RunMetadataRecorded ==
    /\ RunEntry.kind = "dir"
    /\ {"best.pt", "metadata.json"} \subseteq RunEntry.files
    /\ RunEntry.meta_ok
    /\ RunEntry.m.timestamp = worker.timestamp
    /\ RunEntry.m.dataset = worker.dataset_name
    /\ RunEntry.m.epochs = worker.epochs
    /\ RunEntry.m.patience = worker.patience
    /\ RunEntry.m.map50 = worker.map50

\* C1 as stated: the entry a successful run has written holds best.pt, a
\* metrics snapshot and metadata.json with timestamp, dataset, epochs,
\* patience and map50; metadata.json is never there without best.pt.
C1_Original ==
    /\ MetadataNeedsCheckpoint
    /\ FinishedOkPending =>
          /\ RunMetadataRecorded
          /\ \E f \in RunEntry.files : MetricsSnapshot(f)

\* C1 amended: the entry a successful run has written holds best.pt and
\* metadata.json with timestamp, dataset, epochs, patience and map50, and no
\* metrics snapshot: the metrics stay in the run directory that metadata.json
\* names; metadata.json is never there without best.pt.
C1_EntryContents ==
    /\ MetadataNeedsCheckpoint
    /\ FinishedOkPending =>
          /\ RunMetadataRecorded
          /\ \A f \in RunEntry.files : ~MetricsSnapshot(f)
          /\ RunEntry.m.run_dir = <<worker.paths.runs_dir, worker.timestamp>>
          /\ RunEntry.m.run_dir \in run_dirs

\* a run has completed and written its entry, with a score
C1_Witness ==
    /\ FinishedOkPending
    /\ worker.pc = "ended"
    /\ RunEntry.m.map50 = 7
    /\ RunEntry.m.epochs = 2
    /\ RunEntry.m.patience = 10

\* the new run shows on a page
InHistory  == \E i \in DOMAIN all_entries :
                 all_entries[i].history_dir = <<worker.paths.history_dir, worker.timestamp>>
InCombo    == \E i \in DOMAIN model_combo :
                 /\ ~model_combo[i].header
                 /\ model_combo[i].timestamp = worker.timestamp
                 /\ model_combo[i].model_file = worker.timestamp
InCards    == \E i \in DOMAIN mc_cards :
                 mc_cards[i].run_dir = <<worker.paths.runs_dir, worker.timestamp>>
InDashboard == \E i \in DOMAIN dash_entries :
                 dash_entries[i].run_dir = <<worker.paths.runs_dir, worker.timestamp>>

\* C2: when finished_ok is emitted the model file and metadata.json are
\* written, and once model_saved_signal has been delivered the History list,
\* the Predict combo, the Model Graph cards and the Dashboard entries include
\* the new run.
C2_Original ==
    /\ FinishedOkPending =>
          /\ <<worker.paths.models_dir, worker.timestamp>> \in models_fs
          /\ ReadableMeta(RunEntry)
    /\ last = "on_model_saved" =>
          InHistory /\ InCombo /\ InCards /\ InDashboard

\* what reload_history has to produce, said without the scan
EntryDirs == {all_entries[i].history_dir : i \in DOMAIN all_entries}
ReadableDirs ==
    LET h == page_paths["history"].history_dir
    IN  {<<h, n>> : n \in {k \in Names : hist_fs[h][k].kind = "dir"
                                          /\ "metadata.json" \in hist_fs[h][k].files
                                          /\ hist_fs[h][k].meta_ok}}

\* C3: after reload_history all_entries holds exactly one entry per
\* subdirectory of history_dir with a readable metadata.json, none for
\* anything else, newest first.
C3_ReloadHistory ==
    last \in {"init", "on_model_saved", "save_clicked"} =>
        /\ EntryDirs = ReadableDirs
        /\ Len(all_entries) = Cardinality(ReadableDirs)
        /\ \A i \in DOMAIN all_entries :
              all_entries[i].timestamp
                 = hist_fs[all_entries[i].history_dir[1]][all_entries[i].history_dir[2]].m.timestamp
        /\ \A i, j \in DOMAIN all_entries :
              i < j => all_entries[i].timestamp >= all_entries[j].timestamp

\* a reload that found two runs next to a plain file, a directory without
\* metadata and an unreadable metadata.json
C3_Witness ==
    /\ last = "on_model_saved"
    /\ Len(all_entries) = 2
    /\ all_entries[1].timestamp > all_entries[2].timestamp
    /\ \A n \in StrayNames : hist_fs[page_paths["history"].history_dir][n].kind # "absent"

\* C7: after save_clicked every page, the Model Graph page included, uses
\* the new settings.
C7_Original ==
    last = "save_clicked" =>
        /\ \A p \in Pages : page_paths[p] = settings
        /\ dataset_page.dataset_dir = settings.dataset_dir
        /\ dataset_page.temp_dir = settings.temp_dir

ErrorLines == {"err_no_data_yaml", "err_no_category", "err_not_integer"}

\* C8: start_training with no data.yaml, with the category on its
\* placeholder, or with a non-integer Epochs or Patience starts no worker,
\* appends one error line and leaves the button enabled, the overlay hidden
\* and the progress display as it was.
C8_StartRejected ==
    [][(/\ last' = "start_training"
        /\ \/ data_yaml = None
           \/ dataset_combo' = 0
           \/ ~IsIntText(epoch_input')
           \/ ~IsIntText(patience_input'))
       => /\ worker' = worker
          /\ queue' = queue
          /\ Len(log_box') = Len(log_box) + 1
          /\ SubSeq(log_box', 1, Len(log_box)) = log_box
          /\ log_box'[Len(log_box')] \in ErrorLines
          /\ btn_start'
          /\ ~overlay'
          /\ progress_bar' = progress_bar
          /\ progress_label' = progress_label]_vars

\* a start with a data.yaml chosen and the category left on the placeholder
C8_Witness ==
    /\ last = "start_training"
    /\ data_yaml # None
    /\ dataset_combo = 0
    /\ log_box # <<>>
    /\ log_box[Len(log_box)] = "err_no_category"
    /\ worker.pc = "none"

\* C9: when train raises, the run logs the failure and ends with the models
\* and the history as they were when it started, and without finished_ok.
C9_TrainRaises ==
    (worker.raised = "train" /\ FinishedPending) =>
        /\ worker.pc = "ended"
        /\ models_fs = run_start_fs.models
        /\ hist_fs = run_start_fs.hist
        /\ ~FinishedOkPending
        /\ "train_failed" \in QueueTags \/ \E i \in DOMAIN log_box : log_box[i] = "train_failed"

\* train raised after the library had written weights/best.pt, with earlier
\* history on disk
C9_Witness ==
    /\ worker.raised = "train"
    /\ FinishedPending
    /\ <<worker.paths.runs_dir, worker.timestamp>> \in run_best
    /\ \E h \in HistoryDirs, n \in Timestamps : ReadableMeta(hist_fs[h][n])

\* C10: once a worker has ended, training_done runs: the overlay is hidden,
\* the start button enabled and the progress bar at 100.
C10_TrainingDone ==
    FinishedPending ~>
        (last = "training_done" /\ ~overlay /\ btn_start /\ progress_bar = 100)

\* training_done ran for a worker whose last progress report was below 100
C10_Witness ==
    /\ last = "training_done"
    /\ worker.pc = "ended"
    /\ progress_label.progress < 100
    /\ progress_label.progress > 0
    /\ progress_bar = 100
    /\ ~overlay
    /\ btn_start

(***************************************************************************)
(* Claims about delete_selected and run_predict, checked under SpecBrowse  *)
(***************************************************************************)
\* all_entries without the entries of one history directory
RECURSIVE WithoutEntry(_, _)
WithoutEntry(entries, hd) ==
    IF entries = <<>> THEN <<>>
    ELSE IF Head(entries).history_dir = hd THEN WithoutEntry(Tail(entries), hd)
    ELSE <<Head(entries)>> \o WithoutEntry(Tail(entries), hd)

DeleteConfirmed(call) == call.found /\ call.answer = "Yes"

\* C11: after a confirmed delete_selected has reported completion the
\* entry's model file, run directory and history directory are gone, the
\* entry is in neither list, and the files and list entries of the other
\* history entries are as they were.
C11_Original ==
    [][(last' = "delete_selected" /\ DeleteConfirmed(del_call'))
       => LET c == del_call' IN
          /\ c.models_file \notin models_fs'
          /\ c.run_dir \notin run_dirs'
          /\ hist_fs'[c.history_dir[1]][c.history_dir[2]].kind = "absent"
          /\ all_entries' = WithoutEntry(all_entries, c.history_dir)
          /\ filtered_entries' = WithoutEntry(filtered_entries, c.history_dir)
          /\ models_fs' = models_fs \ {c.models_file}
          /\ run_dirs' = run_dirs \ {c.run_dir}
          /\ \A h \in HistoryDirs, n \in Names :
                <<h, n>> # c.history_dir => hist_fs'[h][n] = hist_fs[h][n]]_vars

\* C12: delete_selected with no row selected, or with the question not
\* answered Yes, deletes nothing and leaves all_entries, filtered_entries
\* and current_page as they were.
C12_DeleteCancelled ==
    [][(last' = "delete_selected" /\ ~DeleteConfirmed(del_call'))
       => /\ UNCHANGED <<dirs, models_fs, run_dirs, run_best, hist_fs, pred_dirs>>
          /\ UNCHANGED <<all_entries, filtered_entries, current_page>>]_vars

\* the question about the second of two listed entries was answered No
C12_Witness ==
    /\ last = "delete_selected"
    /\ del_call.found
    /\ del_call.row = 1
    /\ del_call.answer = "No"
    /\ Len(all_entries) >= 2
    /\ del_call.models_file \in models_fs

PredictErrors == {"err_no_file", "err_no_model", "err_no_history"}

\* C13: run_predict with no input file, with a header or nothing current in
\* the combo, or with no training history starts no worker, creates no
\* directory, appends one error line and does not raise.
C13_Original ==
    [][(/\ last' = "run_predict"
        /\ \/ ~pred_call'.selected
           \/ pred_call'.text \in {"header", "empty"}
           \/ ~pred_call'.history)
       => /\ pred_worker' = pred_worker
          /\ ~overlay'
          /\ UNCHANGED <<dirs, hist_fs, pred_dirs>>
          /\ Len(pred_log') = Len(pred_log) + 1
          /\ SubSeq(pred_log', 1, Len(pred_log)) = pred_log
          /\ pred_log'[Len(pred_log')] \in PredictErrors
          /\ ~pred_call'.raised]_vars

(***************************************************************************)
(* Claim about the start button, checked under SpecTrain                   *)
(***************************************************************************)
WorkerRunning == worker.pc \notin {"none", "ended"}

\* C14: at most one TrainWorker runs at a time: while a worker runs the
\* start button is disabled, no worker is started while another runs, and
\* the button is enabled again only by training_done, after the worker has
\* finished.
C14_OneWorker ==
    /\ [](WorkerRunning => ~btn_start)
    /\ [][(last' = "start_training" /\ worker' # worker) => ~WorkerRunning]_vars
    /\ [][(~btn_start /\ btn_start')
             => (last' = "training_done" /\ worker.pc = "ended")]_vars

\* a second worker runs after the first has finished and training_done has
\* enabled the button again
C14_Witness ==
    /\ nstarts = 2
    /\ WorkerRunning
    /\ ~btn_start
    /\ \E k \in DOMAIN log_box : log_box[k] = "training_end"

====
